---- MODULE Spec2Model ----
(***************************************************************************)
(* The job handler of src/handler.py: one serverless worker process that   *)
(* runs handler(job) for one job after another (line 147).  Strings are    *)
(* sequences of one-character strings, so that concatenation, substring    *)
(* tests, str.split and path joins are computed the way Python computes    *)
(* them.                                                                   *)
(***************************************************************************)
EXTENDS Integers, Sequences, FiniteSets, TLC

\* ------------------------------------------------------------- bounds
\* Longest training progress stream the delegate yields.
MaxEvents == 2
\* Number of jobs the worker process is handed, one after another.
MaxJobs == 2
\* Longest hub_model_id string drawn when the job's strings range widely.
MaxHubLen == 5
\* ------------------------------------------------------------ strings
SLASH == <<"/">>
HYPHEN == "-"

\* the literal "checkpoint-" of line 45
CHECKPOINT == <<"c","h","e","c","k","p","o","i","n","t","-">>

\* the literal "fine-tuning/" of line 72
FINE_TUNING == <<"f","i","n","e","-","t","u","n","i","n","g","/">>

\* BASE_VOLUME of line 13, with the environment variable BASE_VOLUME = "/v"
BASE_VOLUME == <<"/","v">>

\* the literal "gs://" of line 137
GS_SCHEME == <<"g","s",":","/","/">>

\* Python's `sub in s` on strings
Contains(s, sub) ==
    \E k \in 0..(Len(s) - Len(sub)) : SubSeq(s, k + 1, k + Len(sub)) = sub

StartsWith(s, p) == Len(p) <= Len(s) /\ SubSeq(s, 1, Len(p)) = p

\* Python's s.split("-"): the sequence of tokens between the hyphens
RECURSIVE Split(_)
Split(s) ==
    IF \A k \in 1..Len(s) : s[k] # HYPHEN
    THEN <<s>>
    ELSE LET k == CHOOSE n \in 1..Len(s) :
                      s[n] = HYPHEN /\ \A m \in 1..(n - 1) : s[m] # HYPHEN
         IN <<SubSeq(s, 1, k - 1)>> \o Split(SubSeq(s, k + 1, Len(s)))

\* Python's seq[-1]
Last(q) == q[Len(q)]

\* os.path.join(a, b) on POSIX
PathJoin(a, b) ==
    IF StartsWith(b, SLASH) THEN b
    ELSE IF a = <<>> \/ a[Len(a)] = "/" THEN a \o b
    ELSE a \o SLASH \o b

\* the part of os.path.normpath that matters here: no trailing slash
RECURSIVE Normpath(_)
Normpath(p) ==
    IF Len(p) > 1 /\ p[Len(p)] = "/" THEN Normpath(SubSeq(p, 1, Len(p) - 1))
    ELSE p

\* path lies strictly below directory d
IsUnder(path, d) ==
    LET n == Normpath(d)
    IN  IF n = SLASH THEN Len(path) > 1 /\ StartsWith(path, SLASH)
        ELSE StartsWith(path, n \o SLASH) /\ Len(path) > Len(n) + 1

\* os.path.relpath(path, start) for a path below start
Relpath(path, start) ==
    LET n == Normpath(start)
    IN  IF n = SLASH THEN SubSeq(path, 2, Len(path))
        ELSE SubSeq(path, Len(n) + 2, Len(path))

\* the directory part of a path (os.path.dirname)
RECURSIVE Dirname(_)
Dirname(p) ==
    IF p = <<>> THEN <<>>
    ELSE IF p[Len(p)] = "/" THEN (IF Len(p) = 1 THEN p ELSE SubSeq(p, 1, Len(p) - 1))
    ELSE Dirname(SubSeq(p, 1, Len(p) - 1))

\* ------------------------------------------------------- Python values
\* A value of the open args mapping: None, a str or an int.
NoneV == [t |-> "none", s |-> <<>>]
StrV(s) == [t |-> "str", s |-> s]
IntV(digits) == [t |-> "int", s |-> digits]

\* Python truthiness, as `if hub_model_id:` tests it (line 125)
Truthy(v) ==
    \/ v.t = "str" /\ v.s # <<>>
    \/ v.t = "int" /\ v.s # <<"0">>

\* dict.get(key, default)
Get(d, k, default) == IF k \in DOMAIN d THEN d[k] ELSE default

\* d[key] = value
Put(d, k, v) == [x \in DOMAIN d \cup {k} |-> IF x = k THEN v ELSE d[x]]

\* del d[key], for a key that is present
Del(d, k) == [x \in DOMAIN d \ {k} |-> d[x]]

\* ----------------------------------------------------------- yaml.dump
Digits == {"0","1","2","3","4","5","6","7","8","9"}
YAML_NULL == <<"n","u","l","l">>
QUOTE == <<"'">>

\* what a plain (unquoted) YAML scalar is read back as
YamlPlainParse(text) ==
    IF text = YAML_NULL \/ text = <<"~">> \/ text = <<>> THEN NoneV
    ELSE IF \A k \in 1..Len(text) : text[k] \in Digits THEN IntV(text)
    ELSE StrV(text)

\* yaml.dump of one scalar: None is written null, a str that would not read
\* back as itself is quoted
YamlScalar(v) ==
    IF v.t = "none" THEN YAML_NULL
    ELSE IF v.t = "int" THEN v.s
    ELSE IF YamlPlainParse(v.s) # v THEN QUOTE \o v.s \o QUOTE
    ELSE v.s

\* yaml.dump(args, default_flow_style=False) (line 96): one "key: scalar"
\* line per key
YamlDump(mapping) == [k \in DOMAIN mapping |-> YamlScalar(mapping[k])]

\* the value the training delegate reads back from one line of the document
YamlLoadScalar(text) ==
    IF Len(text) >= 2 /\ text[1] = "'" /\ text[Len(text)] = "'"
    THEN StrV(SubSeq(text, 2, Len(text) - 1))
    ELSE YamlPlainParse(text)

\* ------------------------------------------------------------- inputs
JOB_ID == <<"j","1">>
RUN_ID == <<"r","1">>
USER_ID == <<"u","1">>
WANDB_TOKEN == <<"w">>
HF_TOKEN_VALUE == <<"h">>

\* hub_model_id values a client supplies in args: "o/m-v3", "m", "", 7
HubIds ==
    { StrV(<<"o","/","m","-","v","3">>), StrV(<<"m">>), StrV(<<>>), IntV(<<"7">>) }

BaseArgs == [k \in {"base_model"} |-> StrV(<<"g">>)]

\* args with and without a hub_model_id
ArgsSet == {BaseArgs} \cup { Put(BaseArgs, "hub_model_id", h) : h \in HubIds }

\* the optional "model_name" key of the job input (line 122)
ModelNames == { <<>>, [k \in {"model_name"} |-> <<"n">>] }

\* credentials mappings: complete, or lacking one of the two keys
FullCredentials ==
    [k \in {"wandb_api_key", "hf_token"} |->
        IF k = "hf_token" THEN HF_TOKEN_VALUE ELSE WANDB_TOKEN]
CredentialSets ==
    { FullCredentials, Del(FullCredentials, "hf_token"),
      Del(FullCredentials, "wandb_api_key") }

\* the job mapping the platform hands to handler
Requests ==
    [ id : {JOB_ID}, run_id : {RUN_ID}, user_id : {USER_ID},
      args : ArgsSet, credentials : CredentialSets, opt : ModelNames ]

\* relative paths of the files a training run leaves in its output directory
F_FINAL == <<"f">>
F_CKPT == <<"c","h","e","c","k","p","o","i","n","t","-","5","/","s">>
F_SUB == <<"d","/","g">>
Trees == { {}, {F_FINAL}, {F_FINAL, F_CKPT}, {F_CKPT, F_SUB} }

\* endpoint configuration of the worker: the GCS_* and GCP_SA_KEY variables.
\* A service-account key is "K" (a well-formed key document), "{}" (JSON
\* without the key fields), "{" (not JSON) or "" (set but empty).
SA_OK == <<"K">>
SA_NOFIELDS == <<"{","}">>
SA_BADJSON == <<"{">>
SaKeys == { SA_OK, SA_NOFIELDS, SA_BADJSON, <<>> }
BUCKET == <<"b">>
PREFIX == <<"p">>
FullConfig ==
    [k \in {"GCS_BUCKET_NAME", "GCS_FINETUNED_MODEL_PATH", "GCP_SA_KEY"} |->
        IF k = "GCS_BUCKET_NAME" THEN BUCKET
        ELSE IF k = "GCS_FINETUNED_MODEL_PATH" THEN PREFIX ELSE SA_OK]
Environments ==
    { FullConfig, Del(FullConfig, "GCS_BUCKET_NAME"),
      Del(FullConfig, "GCS_FINETUNED_MODEL_PATH"), Del(FullConfig, "GCP_SA_KEY") }
    \cup { Put(FullConfig, "GCP_SA_KEY", k) : k \in SaKeys }

\* -------------------------------------------------------------- state
VARIABLES
    request,        \* the job mapping every job of this run carries
    tree,           \* the files the training delegate writes for this request
    environ,        \* os.environ: variable name -> value, for the names set
    files,          \* regular files of the local volume (absolute paths)
    dirs,           \* directories of the local volume (absolute paths)
    blobs,          \* objects in remote storage: [bucket, name]
    config_file,    \* /workspace/test_config.yaml: {} or {the document}
    args_heap,      \* the args mapping object of each job (mutated in place)
    hf_logins,      \* the calls of login(): [call, token]
    started,        \* number of jobs handed to handler so far
    pc,             \* where the running handler call is
    job,            \* which job object the running call was given
    args_in,        \* the args mapping as it was when handler was called
    output_dir,     \* local of handler (line 84)
    hub_model_id,   \* local of handler (lines 93, 126)
    yielded,        \* number of progress events received so far
    train_doc,      \* {} or {the document the delegate read}
    bucket_name,    \* local of handler (line 119)
    gcs_finetuned_model_path,   \* local of handler (line 120)
    gcs_path,       \* local of handler (lines 124, 127)
    todo,           \* files os.walk has still to hand to the upload loop
    uploaded,       \* blob names uploaded by this call, in order
    error,          \* the exception raised or caught, if any
    removed,        \* whether this call's rmtree removed anything
    result,         \* {} or {the mapping handler returned}
    log,            \* what this call wrote to the logger
    paths,          \* the remote paths handler calls have derived so far
    other           \* where a second handler call of the same process is

inputs == <<request, tree>>
process == <<environ, files, dirs, blobs, config_file, args_heap, hf_logins, started>>
frame == <<pc, job, args_in, output_dir, hub_model_id, yielded, train_doc,
           bucket_name, gcs_finetuned_model_path, gcs_path, todo, uploaded,
           error, removed, result, log>>
vars == <<inputs, process, frame, paths, other>>

NoError == [type |-> "", stage |-> ""]
Err(type, stage) == [type |-> type, stage |-> stage]

\* one logger call: level, message, its formatted argument, job_id keyword
LogEntry(level, msg, data, job_id) ==
    [level |-> level, msg |-> msg, data |-> data, job_id |-> job_id]

Init ==
    /\ request \in Requests
    /\ tree \in Trees
    /\ environ \in Environments
    /\ files = {}
    /\ dirs = {BASE_VOLUME}
    /\ blobs = {}
    /\ config_file = {}
    /\ args_heap = [j \in 1..MaxJobs |-> request.args]
    /\ hf_logins = {}
    /\ started = 0
    /\ pc = "idle"
    /\ job = 0
    /\ args_in = <<>>
    /\ output_dir = <<>>
    /\ hub_model_id = NoneV
    /\ yielded = 0
    /\ train_doc = {}
    /\ bucket_name = <<>>
    /\ gcs_finetuned_model_path = <<>>
    /\ gcs_path = <<>>
    /\ todo = <<>>
    /\ uploaded = <<>>
    /\ error = NoError
    /\ removed = FALSE
    /\ result = {}
    /\ log = <<>>
    /\ paths = {}
    /\ other = "none"

\* ------------------------------------------- environment preparation
\* get_output_dir (lines 71-73)
get_output_dir(run_id) == FINE_TUNING \o run_id

\* os.path.join(BASE_VOLUME, get_output_dir(run_id), user_id) (line 84)
OutputDir(run_id, user_id) ==
    PathJoin(PathJoin(BASE_VOLUME, get_output_dir(run_id)), user_id)

\* mutation of PrepareArgs: line 94 is missing, hub_model_id is not nulled
PrepareArgsKeepsHub(a, out, run_id, job_id) ==
    Put(Put(Put(a, "output_dir", StrV(out)),
            "run_name", StrV(run_id)),
        "runpod_job_id", StrV(job_id))

\* the assignments handler makes to the args mapping (lines 85, 91-94)
PrepareArgs(a, out, run_id, job_id) ==
    Put(Put(Put(Put(a, "output_dir", StrV(out)),
                "run_name", StrV(run_id)),
            "runpod_job_id", StrV(job_id)),
        "hub_model_id", NoneV)

\* hub_model_id = args.get("hub_model_id") (line 93), read before line 94
ReadHubModelId(a) == Get(a, "hub_model_id", NoneV)

\* mutation of validate_env: only the first variable is looked for
validate_env_first_only(env) ==
    IF "WANDB_API_KEY" \notin DOMAIN env THEN "WANDB_API_KEY" ELSE ""

\* validate_env (lines 60-68): the first required variable that is not in
\* os.environ, or "" when both are there
validate_env(env) ==
    IF "WANDB_API_KEY" \notin DOMAIN env THEN "WANDB_API_KEY"
    ELSE IF "HF_TOKEN" \notin DOMAIN env THEN "HF_TOKEN"
    ELSE ""

\* mutation of ClearCredentials: line 115 is missing
ClearOnlyWandb(env) == Del(env, "WANDB_API_KEY")

\* del os.environ["WANDB_API_KEY"]; del os.environ["HF_TOKEN"] (lines 114-115)
ClearCredentials(env) == Del(Del(env, "WANDB_API_KEY"), "HF_TOKEN")

\* handler is called with the next job (line 147 registers it): lines 77-98.
\* The job is a fresh mapping, or a mapping an earlier call was given.
Start ==
    /\ pc \in {"idle", "returned", "raised"}
    /\ started < MaxJobs
    /\ \E j \in 1..(started + 1) :
         LET a == args_heap[j]
             out == OutputDir(request.run_id, request.user_id)
             a2 == PrepareArgs(a, out, request.run_id, request.id)
         IN  /\ job' = j
             /\ args_in' = a
             /\ output_dir' = out
             /\ hub_model_id' = ReadHubModelId(a)
             /\ args_heap' = [args_heap EXCEPT ![j] = a2]
             /\ config_file' = {YamlDump(a2)}
    /\ started' = started + 1
    /\ pc' = "inject"
    /\ yielded' = 0
    /\ train_doc' = {}
    /\ bucket_name' = <<>>
    /\ gcs_finetuned_model_path' = <<>>
    /\ gcs_path' = <<>>
    /\ todo' = <<>>
    /\ uploaded' = <<>>
    /\ error' = NoError
    /\ removed' = FALSE
    /\ result' = {}
    /\ log' = <<>>
    /\ UNCHANGED <<inputs, paths, other, environ, files, dirs, blobs, hf_logins>>

\* lines 101-103: the two secrets go into os.environ; a credentials mapping
\* that lacks a key raises KeyError at the line that reads it
Inject ==
    /\ pc = "inject"
    /\ LET c == request.credentials
       IN  IF "wandb_api_key" \notin DOMAIN c
           THEN /\ error' = Err("KeyError", "inject")
                /\ pc' = "raised"
                /\ UNCHANGED environ
           ELSE IF "hf_token" \notin DOMAIN c
           THEN /\ environ' = Put(environ, "WANDB_API_KEY", c["wandb_api_key"])
                /\ error' = Err("KeyError", "inject")
                /\ pc' = "raised"
           ELSE /\ environ' = Put(Put(environ, "WANDB_API_KEY", c["wandb_api_key"]),
                                  "HF_TOKEN", c["hf_token"])
                /\ pc' = "validate"
                /\ UNCHANGED error
    /\ UNCHANGED <<inputs, paths, other, files, dirs, blobs, config_file, args_heap, hf_logins,
                   started, job, args_in, output_dir, hub_model_id, yielded,
                   train_doc, bucket_name, gcs_finetuned_model_path, gcs_path,
                   todo, uploaded, removed, result, log>>

\* line 105: validate_env logs the missing variable with the job id and raises
Validate ==
    /\ pc = "validate"
    /\ LET missing == validate_env(environ)
       IN  IF missing # ""
           THEN /\ log' = Append(log, LogEntry("error", "variable not found",
                                               <<missing>>, request.id))
                /\ error' = Err("ValueError", "validate")
                /\ pc' = "raised"
           ELSE /\ pc' = "login"
                /\ UNCHANGED <<log, error>>
    /\ UNCHANGED <<inputs, paths, other, process, job, args_in, output_dir, hub_model_id,
                   yielded, train_doc, bucket_name, gcs_finetuned_model_path,
                   gcs_path, todo, uploaded, removed, result>>

\* line 106: login(token=os.environ["HF_TOKEN"]) succeeds
Login ==
    /\ pc = "login"
    /\ "HF_TOKEN" \in DOMAIN environ
    /\ hf_logins' = hf_logins \cup {[call |-> started, token |-> environ["HF_TOKEN"]]}
    /\ pc' = "train_start"
    /\ UNCHANGED <<inputs, paths, other, environ, files, dirs, blobs, config_file, args_heap,
                   started, job, args_in, output_dir, hub_model_id, yielded,
                   train_doc, bucket_name, gcs_finetuned_model_path, gcs_path,
                   todo, uploaded, error, removed, result, log>>

\* line 106: the hub rejects the token (or os.environ has no HF_TOKEN)
LoginFails ==
    /\ pc = "login"
    /\ IF "HF_TOKEN" \in DOMAIN environ
       THEN /\ hf_logins' = hf_logins \cup {[call |-> started, token |-> environ["HF_TOKEN"]]}
            /\ error' = Err("LoginError", "login")
       ELSE /\ error' = Err("KeyError", "login")
            /\ UNCHANGED hf_logins
    /\ pc' = "raised"
    /\ UNCHANGED <<inputs, paths, other, environ, files, dirs, blobs, config_file, args_heap,
                   started, job, args_in, output_dir, hub_model_id, yielded,
                   train_doc, bucket_name, gcs_finetuned_model_path, gcs_path,
                   todo, uploaded, removed, result, log>>

\* ------------------------------------------------- training delegation
\* the directories above a path, up to the root: what repeated
\* os.path.dirname gives, the part of the path before each separator
AncestorDirs(p) ==
    { SubSeq(p, 1, k - 1) : k \in { i \in 2..Len(p) : p[i] = "/" } } \ {SLASH}

\* train(config_path), once resumed, has read the configuration document and
\* written its artifacts below the output_dir the document names
DelegateRuns ==
    /\ train_doc' = config_file
    /\ files' = files \cup { PathJoin(output_dir, f) : f \in tree }
    /\ dirs' = dirs \cup UNION { AncestorDirs(PathJoin(output_dir, f)) : f \in tree }

\* line 108, and line 109 up to the first await
TrainStart ==
    /\ pc = "train_start"
    /\ log' = Append(log, LogEntry("info", "Starting Training.", <<>>, <<>>))
    /\ pc' = "training"
    /\ UNCHANGED <<inputs, paths, other, process, job, args_in, output_dir, hub_model_id,
                   yielded, train_doc, bucket_name, gcs_finetuned_model_path,
                   gcs_path, todo, uploaded, error, removed, result>>

\* mutation of TrainEvent: line 110 is missing, the event is consumed unlogged
TrainEventSilent ==
    /\ pc = "training"
    /\ yielded < MaxEvents
    /\ DelegateRuns
    /\ yielded' = yielded + 1
    /\ UNCHANGED <<inputs, paths, other, environ, blobs, config_file, args_heap, hf_logins,
                   started, pc, job, args_in, output_dir, hub_model_id,
                   bucket_name, gcs_finetuned_model_path, gcs_path, todo,
                   uploaded, error, removed, result, log>>

\* lines 109-110: the delegate yields its next event and handler logs it
TrainEvent ==
    /\ pc = "training"
    /\ yielded < MaxEvents
    /\ DelegateRuns
    /\ yielded' = yielded + 1
    /\ log' = Append(log, LogEntry("info", "event", <<yielded + 1>>, <<>>))
    /\ UNCHANGED <<inputs, paths, other, environ, blobs, config_file, args_heap, hf_logins,
                   started, pc, job, args_in, output_dir, hub_model_id,
                   bucket_name, gcs_finetuned_model_path, gcs_path, todo,
                   uploaded, error, removed, result>>

\* lines 109, 111: the stream ends
TrainEnd ==
    /\ pc = "training"
    /\ DelegateRuns
    /\ log' = Append(log, LogEntry("info", "Training Complete.", <<>>, <<>>))
    /\ pc' = "clear"
    /\ UNCHANGED <<inputs, paths, other, environ, blobs, config_file, args_heap, hf_logins,
                   started, job, args_in, output_dir, hub_model_id, yielded,
                   bucket_name, gcs_finetuned_model_path, gcs_path, todo,
                   uploaded, error, removed, result>>

\* mutation of TrainRaises: the loop sits in a try block that swallows the
\* error, and handler goes on to publish
TrainRaisesCaught ==
    /\ pc = "training"
    /\ DelegateRuns
    /\ error' = Err("TrainError", "train")
    /\ pc' = "clear"
    /\ UNCHANGED <<inputs, paths, other, environ, blobs, config_file, args_heap, hf_logins,
                   started, job, args_in, output_dir, hub_model_id, yielded,
                   bucket_name, gcs_finetuned_model_path, gcs_path, todo,
                   uploaded, removed, result, log>>

\* mutation of TrainRaises: the secrets are deleted in a finally block
TrainRaisesClears ==
    /\ pc = "training"
    /\ DelegateRuns
    /\ environ' = ClearCredentials(environ)
    /\ error' = Err("TrainError", "train")
    /\ pc' = "raised"
    /\ UNCHANGED <<inputs, paths, other, blobs, config_file, args_heap, hf_logins,
                   started, job, args_in, output_dir, hub_model_id, yielded,
                   bucket_name, gcs_finetuned_model_path, gcs_path, todo,
                   uploaded, removed, result, log>>

\* line 109: the stream raises; nothing in handler catches it
TrainRaises ==
    /\ pc = "training"
    /\ DelegateRuns
    /\ error' = Err("TrainError", "train")
    /\ pc' = "raised"
    /\ UNCHANGED <<inputs, paths, other, environ, blobs, config_file, args_heap, hf_logins,
                   started, job, args_in, output_dir, hub_model_id, yielded,
                   bucket_name, gcs_finetuned_model_path, gcs_path, todo,
                   uploaded, removed, result, log>>

\* lines 114-115; del raises KeyError for a variable that is not there
ClearEnv ==
    /\ pc = "clear"
    /\ IF "WANDB_API_KEY" \notin DOMAIN environ
       THEN /\ error' = Err("KeyError", "clear")
            /\ pc' = "raised"
            /\ UNCHANGED environ
       ELSE IF "HF_TOKEN" \notin DOMAIN environ
       THEN /\ environ' = Del(environ, "WANDB_API_KEY")
            /\ error' = Err("KeyError", "clear")
            /\ pc' = "raised"
       ELSE /\ environ' = ClearCredentials(environ)
            /\ pc' = "pub_config"
            /\ UNCHANGED error
    /\ UNCHANGED <<inputs, paths, other, files, dirs, blobs, config_file, args_heap, hf_logins,
                   started, job, args_in, output_dir, hub_model_id, yielded,
                   train_doc, bucket_name, gcs_finetuned_model_path, gcs_path,
                   todo, uploaded, removed, result, log>>

\* ------------------------------------------------ artifact publication
\* f"{gcs_finetuned_model_path}/{user_id}/{name}" (lines 124, 127)
GcsPath(prefix, user_id, name) == prefix \o SLASH \o user_id \o SLASH \o name

\* mutation of ModelIdentifier: [0] is taken instead of [-1]
ModelIdentifierFirst(h) == Split(h)[1]

\* hub_model_id.split("-")[-1] (line 126)
ModelIdentifier(h) == Last(Split(h))

\* f"gs://{bucket_name}/{gcs_path}" (lines 50, 137)
GsUrl(bucket, path) == GS_SCHEME \o bucket \o SLASH \o path

\* mutation of BlobName: the file name alone is kept, directories are dropped
BlobNameFlat(path, rel_path) ==
    path \o SLASH \o
        (IF Dirname(rel_path) = <<>> THEN rel_path
         ELSE SubSeq(rel_path, Len(Dirname(rel_path)) + 2, Len(rel_path)))

\* f"{gcs_path}/{rel_path}" (line 47)
BlobName(path, rel_path) == path \o SLASH \o rel_path

\* os.path.isdir, os.path.exists
Isdir(p) == Normpath(p) \in dirs
Exists(p) == Normpath(p) \in files \cup dirs

\* the test of line 45 that makes the loop skip an entry
Skipped(local_path, rel_path) == Isdir(local_path) /\ Contains(rel_path, CHECKPOINT)

\* lines 23-36: the exception credential loading ends in, or "" for none
LoadCredentials(env) ==
    LET sa_key_json == Get(env, "GCP_SA_KEY", <<>>)
    IN  IF sa_key_json = <<>> THEN "ValueError"
        ELSE IF sa_key_json = SA_BADJSON THEN "JSONDecodeError"
        ELSE IF sa_key_json = SA_NOFIELDS THEN "ValueError"
        ELSE ""

\* the regular files os.walk(local_dir) reports, as os.path.join(root, file)
WalkFiles(local_dir) ==
    IF Isdir(local_dir) THEN { f \in files : IsUnder(f, local_dir) } ELSE {}

\* the orders os.walk can report them in: top-down, a directory's own files
\* before those of its subdirectories, each subtree in one piece
WalkOrders(local_dir) ==
    LET F == WalkFiles(local_dir)
        n == Cardinality(F)
        D == { d \in dirs : IsUnder(d, local_dir) \/ d = Normpath(local_dir) }
    IN  { q \in [1..n -> F] :
            /\ \A a, b \in 1..n : a # b => q[a] # q[b]
            /\ \A d \in D :
                 /\ \A a, b, c \in 1..n :
                      (a < b /\ b < c /\ IsUnder(q[a], d) /\ IsUnder(q[c], d))
                          => IsUnder(q[b], d)
                 /\ \A a, b \in 1..n :
                      (Dirname(q[b]) = d /\ IsUnder(q[a], d) /\ Dirname(q[a]) # d)
                          => b < a }

\* the mapping returned at lines 135-139
FullResponse(bucket, path) ==
    [status |-> "COMPLETED",
     model_gcs_path |-> GsUrl(bucket, path),
     message |-> "Training complete, model uploaded to GCS and local cleaned"]

\* the mapping returned at line 143
DegradedResponse ==
    [status |-> "COMPLETED", message |-> "Training complete, but GCS upload failed"]

\* lines 119-120: os.environ[...] raises KeyError inside the try block
PubConfig ==
    /\ pc = "pub_config"
    /\ IF "GCS_BUCKET_NAME" \notin DOMAIN environ
          \/ "GCS_FINETUNED_MODEL_PATH" \notin DOMAIN environ
       THEN /\ error' = Err("KeyError", "config")
            /\ pc' = "except"
            /\ bucket_name' =
                 IF "GCS_BUCKET_NAME" \in DOMAIN environ
                 THEN environ["GCS_BUCKET_NAME"] ELSE bucket_name
            /\ UNCHANGED gcs_finetuned_model_path
       ELSE /\ bucket_name' = environ["GCS_BUCKET_NAME"]
            /\ gcs_finetuned_model_path' = environ["GCS_FINETUNED_MODEL_PATH"]
            /\ pc' = "pub_path"
            /\ UNCHANGED error
    /\ UNCHANGED <<inputs, paths, other, process, job, args_in, output_dir, hub_model_id,
                   yielded, train_doc, gcs_path, todo, uploaded, removed,
                   result, log>>

\* lines 122-127: a truthy hub_model_id that is no str has no split
PubPath ==
    /\ pc = "pub_path"
    /\ LET model_name == Get(request.opt, "model_name", request.run_id)
       IN  IF ~Truthy(hub_model_id)
           THEN /\ gcs_path' = GcsPath(gcs_finetuned_model_path, request.user_id,
                                       model_name)
                /\ paths' = paths \cup {gcs_path'}
                /\ pc' = "creds"
                /\ UNCHANGED <<hub_model_id, error>>
           ELSE IF hub_model_id.t # "str"
           THEN /\ gcs_path' = GcsPath(gcs_finetuned_model_path, request.user_id,
                                       model_name)
                /\ error' = Err("AttributeError", "path")
                /\ pc' = "except"
                /\ UNCHANGED <<hub_model_id, paths>>
           ELSE /\ hub_model_id' = StrV(ModelIdentifier(hub_model_id.s))
                /\ gcs_path' = GcsPath(gcs_finetuned_model_path, request.user_id,
                                       ModelIdentifier(hub_model_id.s))
                /\ paths' = paths \cup {gcs_path'}
                /\ pc' = "creds"
                /\ UNCHANGED error
    /\ UNCHANGED <<inputs, other, process, job, args_in, output_dir, yielded, train_doc,
                   bucket_name, gcs_finetuned_model_path, todo, uploaded,
                   removed, result, log>>

\* upload_to_gcs, lines 23-38: the service-account key is loaded
Creds ==
    /\ pc = "creds"
    /\ IF LoadCredentials(environ) # ""
       THEN /\ error' = Err(LoadCredentials(environ), "credentials")
            /\ pc' = "except"
       ELSE /\ pc' = "walk"
            /\ UNCHANGED error
    /\ UNCHANGED <<inputs, paths, other, process, job, args_in, output_dir, hub_model_id,
                   yielded, train_doc, bucket_name, gcs_finetuned_model_path,
                   gcs_path, todo, uploaded, removed, result, log>>

\* lines 39-40: os.walk lists the tree
Walk ==
    /\ pc = "walk"
    /\ todo' \in WalkOrders(output_dir)
    /\ pc' = "upload"
    /\ UNCHANGED <<inputs, paths, other, process, job, args_in, output_dir, hub_model_id,
                   yielded, train_doc, bucket_name, gcs_finetuned_model_path,
                   gcs_path, uploaded, error, removed, result, log>>

\* lines 41-49, one turn of the loop: the entry is skipped or uploaded
UploadFile ==
    /\ pc = "upload"
    /\ todo # <<>>
    /\ LET local_path == Head(todo)
           rel_path == Relpath(local_path, output_dir)
       IN  IF Skipped(local_path, rel_path)
           THEN UNCHANGED <<blobs, uploaded>>
           ELSE /\ blobs' = blobs \cup
                      {[bucket |-> bucket_name, name |-> BlobName(gcs_path, rel_path)]}
                /\ uploaded' = Append(uploaded, BlobName(gcs_path, rel_path))
    /\ todo' = Tail(todo)
    /\ UNCHANGED <<inputs, paths, other, environ, files, dirs, config_file, args_heap, hf_logins,
                   started, pc, job, args_in, output_dir, hub_model_id, yielded,
                   train_doc, bucket_name, gcs_finetuned_model_path, gcs_path,
                   error, removed, result, log>>

\* mutation of UploadFails: the upload is outside the try block of line 118
UploadFailsEscapes ==
    /\ pc = "upload"
    /\ todo # <<>>
    /\ ~Skipped(Head(todo), Relpath(Head(todo), output_dir))
    /\ error' = Err("UploadError", "upload")
    /\ pc' = "raised"
    /\ UNCHANGED <<inputs, paths, other, process, job, args_in, output_dir, hub_model_id,
                   yielded, train_doc, bucket_name, gcs_finetuned_model_path,
                   gcs_path, todo, uploaded, removed, result, log>>

\* mutation of UploadFails: the objects uploaded so far are deleted again
UploadFailsRollsBack ==
    /\ pc = "upload"
    /\ todo # <<>>
    /\ ~Skipped(Head(todo), Relpath(Head(todo), output_dir))
    /\ blobs' = blobs \ { [bucket |-> bucket_name, name |-> uploaded[k]] :
                            k \in 1..Len(uploaded) }
    /\ error' = Err("UploadError", "upload")
    /\ pc' = "except"
    /\ UNCHANGED <<inputs, paths, other, environ, files, dirs, config_file, args_heap,
                   hf_logins, started, job, args_in, output_dir, hub_model_id,
                   yielded, train_doc, bucket_name, gcs_finetuned_model_path,
                   gcs_path, todo, uploaded, removed, result, log>>

\* line 48: blob.upload_from_filename raises
UploadFails ==
    /\ pc = "upload"
    /\ todo # <<>>
    /\ ~Skipped(Head(todo), Relpath(Head(todo), output_dir))
    /\ error' = Err("UploadError", "upload")
    /\ pc' = "except"
    /\ UNCHANGED <<inputs, paths, other, process, job, args_in, output_dir, hub_model_id,
                   yielded, train_doc, bucket_name, gcs_finetuned_model_path,
                   gcs_path, todo, uploaded, removed, result, log>>

\* mutation of UploadDone: upload_to_gcs returns with files still to upload
UploadDoneEarly ==
    /\ pc = "upload"
    /\ log' = Append(log, LogEntry("info", "Uploaded files to",
                                   <<Len(uploaded)>> \o GsUrl(bucket_name, gcs_path),
                                   <<>>))
    /\ pc' = "cleanup"
    /\ UNCHANGED <<inputs, paths, other, process, job, args_in, output_dir, hub_model_id,
                   yielded, train_doc, bucket_name, gcs_finetuned_model_path,
                   gcs_path, todo, uploaded, error, removed, result>>

\* line 50: the loop is over and upload_to_gcs returns
UploadDone ==
    /\ pc = "upload"
    /\ todo = <<>>
    /\ log' = Append(log, LogEntry("info", "Uploaded files to",
                                   <<Len(uploaded)>> \o GsUrl(bucket_name, gcs_path),
                                   <<>>))
    /\ pc' = "cleanup"
    /\ UNCHANGED <<inputs, paths, other, process, job, args_in, output_dir, hub_model_id,
                   yielded, train_doc, bucket_name, gcs_finetuned_model_path,
                   gcs_path, todo, uploaded, error, removed, result>>

\* ------------------------------------------------- cleanup and status
\* what shutil.rmtree(output_dir) is to remove: the directory and all below
TreeEntries(d) ==
    { e \in files \cup dirs : IsUnder(e, d) \/ e = Normpath(d) }

\* what a failing rmtree can leave behind: the directory itself and, with
\* every entry left, the directories above it
Leftovers(d) ==
    { K \in SUBSET TreeEntries(d) :
        /\ Normpath(d) \in K
        /\ \A e \in K : e = Normpath(d) \/ Dirname(e) \in K }

\* cleanup_output (lines 54-57) returns: the tree is gone, or was not there
Cleanup ==
    /\ pc = "cleanup"
    /\ IF Exists(output_dir)
       THEN /\ files' = files \ TreeEntries(output_dir)
            /\ dirs' = dirs \ TreeEntries(output_dir)
            /\ removed' = TRUE
            /\ log' = Append(log, LogEntry("info", "Cleaned local output dir",
                                           output_dir, <<>>))
       ELSE UNCHANGED <<files, dirs, removed, log>>
    /\ pc' = "return_ok"
    /\ UNCHANGED <<inputs, paths, other, environ, blobs, config_file, args_heap, hf_logins,
                   started, job, args_in, output_dir, hub_model_id, yielded,
                   train_doc, bucket_name, gcs_finetuned_model_path, gcs_path,
                   todo, uploaded, error, result>>

\* line 56: shutil.rmtree raises OSError part-way; the call is inside the
\* try block of line 118
CleanupFails ==
    /\ pc = "cleanup"
    /\ Exists(output_dir)
    /\ \E K \in Leftovers(output_dir) :
         /\ files' = (files \ TreeEntries(output_dir)) \cup (K \cap files)
         /\ dirs' = (dirs \ TreeEntries(output_dir)) \cup (K \cap dirs)
         /\ removed' = (K # TreeEntries(output_dir))
    /\ error' = Err("OSError", "cleanup")
    /\ pc' = "except"
    /\ UNCHANGED <<inputs, paths, other, environ, blobs, config_file, args_heap, hf_logins,
                   started, job, args_in, output_dir, hub_model_id, yielded,
                   train_doc, bucket_name, gcs_finetuned_model_path, gcs_path,
                   todo, uploaded, result, log>>

\* lines 135-139
ReturnUploaded ==
    /\ pc = "return_ok"
    /\ result' = {FullResponse(bucket_name, gcs_path)}
    /\ pc' = "returned"
    /\ UNCHANGED <<inputs, paths, other, process, job, args_in, output_dir, hub_model_id,
                   yielded, train_doc, bucket_name, gcs_finetuned_model_path,
                   gcs_path, todo, uploaded, error, removed, log>>

\* mutation of ExceptUpload: the handler of line 140 also removes the tree
ExceptUploadCleans ==
    /\ pc = "except"
    /\ log' = Append(log, LogEntry("error", "GCS upload failed", <<error.type>>, <<>>))
    /\ result' = {DegradedResponse}
    /\ files' = files \ TreeEntries(output_dir)
    /\ dirs' = dirs \ TreeEntries(output_dir)
    /\ removed' = TRUE
    /\ pc' = "returned"
    /\ UNCHANGED <<inputs, paths, other, environ, blobs, config_file, args_heap, hf_logins,
                   started, job, args_in, output_dir, hub_model_id, yielded,
                   train_doc, bucket_name, gcs_finetuned_model_path, gcs_path,
                   todo, uploaded, error>>

\* mutation of ExceptUpload: the handler of line 140 waits for the failed
\* publication to be repaired and does not return
ExceptUploadSpins ==
    /\ pc = "except"
    /\ UNCHANGED vars

\* lines 140-143: whatever the try block raised is logged and absorbed
ExceptUpload ==
    /\ pc = "except"
    /\ log' = Append(log, LogEntry("error", "GCS upload failed", <<error.type>>, <<>>))
    /\ result' = {DegradedResponse}
    /\ pc' = "returned"
    /\ UNCHANGED <<inputs, paths, other, process, job, args_in, output_dir, hub_model_id,
                   yielded, train_doc, bucket_name, gcs_finetuned_model_path,
                   gcs_path, todo, uploaded, error, removed>>

\* ------------------------------------------------------ specifications
Next ==
    \/ Start
    \/ Inject
    \/ Validate
    \/ Login
    \/ LoginFails
    \/ TrainStart
    \/ TrainEvent
    \/ TrainEnd
    \/ TrainRaises
    \/ ClearEnv
    \/ PubConfig
    \/ PubPath
    \/ Creds
    \/ Walk
    \/ UploadFile
    \/ UploadFails
    \/ UploadDone
    \/ Cleanup
    \/ CleanupFails
    \/ ReturnUploaded
    \/ ExceptUpload

\* the worker process: jobs are handled one after another
Spec == Init /\ [][Next]_vars

\* validate_env on every process environment: handler stands at line 105 in
\* its first call, and os.environ holds any subset of the two secrets
GateEnvironments ==
    { [k \in DOMAIN e \cup S |->
          IF k = "WANDB_API_KEY" THEN WANDB_TOKEN
          ELSE IF k = "HF_TOKEN" THEN HF_TOKEN_VALUE ELSE e[k]] :
      e \in Environments, S \in SUBSET {"WANDB_API_KEY", "HF_TOKEN"} }

InitGate ==
    /\ request \in Requests
    /\ tree \in Trees
    /\ environ \in GateEnvironments
    /\ files = {}
    /\ dirs = {BASE_VOLUME}
    /\ blobs = {}
    /\ args_heap =
         [j \in 1..MaxJobs |->
            IF j = 1
            THEN PrepareArgs(request.args, OutputDir(request.run_id, request.user_id),
                             request.run_id, request.id)
            ELSE request.args]
    /\ config_file = {YamlDump(args_heap[1])}
    /\ hf_logins = {}
    /\ started = 1
    /\ pc = "validate"
    /\ job = 1
    /\ args_in = request.args
    /\ output_dir = OutputDir(request.run_id, request.user_id)
    /\ hub_model_id = ReadHubModelId(request.args)
    /\ yielded = 0
    /\ train_doc = {}
    /\ bucket_name = <<>>
    /\ gcs_finetuned_model_path = <<>>
    /\ gcs_path = <<>>
    /\ todo = <<>>
    /\ uploaded = <<>>
    /\ error = NoError
    /\ removed = FALSE
    /\ result = {}
    /\ log = <<>>
    /\ paths = {}
    /\ other = "none"

SpecGate == InitGate /\ [][Next]_vars

\* the event loop keeps running the call: a step that can be taken is taken.
\* The stream is finite (MaxEvents) and so is the tree the upload walks.
SpecFair == Init /\ [][Next]_vars /\ WF_vars(Next)

\* ------------------------------------------- two calls in one process
\* a second job, handled by another call of handler on the same event loop
OTHER_JOB_ID == <<"j","2">>
OTHER_RUN_ID == <<"r","2">>
OTHER_USER_ID == <<"u","2">>
OTHER_WANDB_TOKEN == <<"x">>
OTHER_HF_TOKEN == <<"y">>

\* the points at which the call in view is not running: before it is called,
\* at the await of line 109, and after it has left handler
AwaitPoints == {"idle", "training", "returned", "raised"}

\* the second call runs lines 77-109 up to its first await: it writes its
\* document to the shared config path (lines 96-98), puts its secrets into
\* os.environ (lines 101-103), validates and logs in (lines 105-106)
OtherEnters ==
    /\ other = "none"
    /\ pc \in AwaitPoints
    /\ config_file' = {YamlDump(PrepareArgs(BaseArgs,
                                  OutputDir(OTHER_RUN_ID, OTHER_USER_ID),
                                  OTHER_RUN_ID, OTHER_JOB_ID))}
    /\ environ' = Put(Put(environ, "WANDB_API_KEY", OTHER_WANDB_TOKEN),
                      "HF_TOKEN", OTHER_HF_TOKEN)
    /\ hf_logins' = hf_logins \cup {[call |-> 0, token |-> OTHER_HF_TOKEN]}
    /\ other' = "training"
    /\ UNCHANGED <<inputs, paths, files, dirs, blobs, args_heap, started, frame>>

\* the second call is resumed, its stream ends and it runs lines 111-143.
\* Its delegate wrote no artifacts, so its publication uploads and removes
\* nothing; what it does to shared state is lines 114-115.
OtherFinishes ==
    /\ other = "training"
    /\ pc \in AwaitPoints
    /\ IF "WANDB_API_KEY" \notin DOMAIN environ
       THEN /\ other' = "raised"
            /\ UNCHANGED environ
       ELSE IF "HF_TOKEN" \notin DOMAIN environ
       THEN /\ environ' = Del(environ, "WANDB_API_KEY")
            /\ other' = "raised"
       ELSE /\ environ' = ClearCredentials(environ)
            /\ other' = "done"
    /\ UNCHANGED <<inputs, paths, files, dirs, blobs, config_file, args_heap,
                   hf_logins, started, frame>>

NextConc ==
    \/ Next
    \/ OtherEnters
    \/ OtherFinishes

\* two calls of handler that interleave at their await points
SpecConc == Init /\ [][NextConc]_vars

\* ------------------------------------------------------------- claims
\* the stages of artifact publication in which the try block can raise:
\* lines 119-120, 122-127, 23-36, 40-49
PublicationStages == {"config", "path", "credentials", "upload"}

\* everything the training delegate wrote is still on the volume
TreeIntact ==
    \A f \in tree :
        /\ PathJoin(output_dir, f) \in files
        /\ AncestorDirs(PathJoin(output_dir, f)) \subseteq dirs

\* line 111 was reached: the progress stream ended without an error
TrainingCompleted ==
    \E k \in 1..Len(log) : log[k].msg = "Training Complete."

\* login() was called by the running handler call
ThisCallLoggedIn == \E l \in hf_logins : l.call = started

\* the local files whose relative path does not contain "checkpoint-"
FinalFiles ==
    { f \in WalkFiles(output_dir) : ~Contains(Relpath(f, output_dir), CHECKPOINT) }

UploadedSet == { uploaded[k] : k \in 1..Len(uploaded) }

\* C1: upload_to_gcs uploads no file whose relative path contains
\* "checkpoint-" and, once it has returned, has uploaded every other file.
C1_CheckpointsNotUploaded ==
    /\ pc \in {"upload", "cleanup"} =>
         \A f \in WalkFiles(output_dir) :
             BlobName(gcs_path, Relpath(f, output_dir)) \in UploadedSet
                 => ~Contains(Relpath(f, output_dir), CHECKPOINT)
    /\ pc = "cleanup" =>
         UploadedSet = { BlobName(gcs_path, Relpath(f, output_dir)) : f \in FinalFiles }

\* C2: when a step of artifact publication raises, handler returns status
\* "COMPLETED" with the upload-failure message and nothing of the local
\* Output Location is deleted.
C2_PublicationFailureDegraded ==
    error.stage \in PublicationStages =>
        /\ pc \in {"except", "returned"}
        /\ TreeIntact
        /\ ~removed
        /\ pc = "returned" =>
             result = {[status |-> "COMPLETED",
                        message |-> "Training complete, but GCS upload failed"]}

C2_Witness ==
    /\ pc = "returned"
    /\ error = Err("UploadError", "upload")
    /\ Len(uploaded) = 1
    /\ Cardinality(tree) = 2
    /\ result # {}

\* C3: when artifact publication has succeeded and handler returns, the local
\* Output Location no longer exists and model_gcs_path is
\* gs://<bucket>/<remote path>, the path the files were uploaded under.
C3_SuccessDeletesAndReturnsPath ==
    (pc = "returned" /\ error.stage \notin PublicationStages) =>
        /\ ~Exists(output_dir)
        /\ \E r \in result :
             /\ "model_gcs_path" \in DOMAIN r
             /\ r.model_gcs_path = GS_SCHEME \o bucket_name \o SLASH \o gcs_path
        /\ \A k \in 1..Len(uploaded) : StartsWith(uploaded[k], gcs_path \o SLASH)

\* C4: when the progress stream raises, the error leaves handler as it is:
\* nothing is uploaded, the Output Location is not deleted and no response
\* is returned.
C4_TrainErrorPropagates ==
    error.stage = "train" =>
        /\ pc = "raised"
        /\ error.type = "TrainError"
        /\ result = {}
        /\ uploaded = <<>>
        /\ todo = <<>>
        /\ gcs_path = <<>>
        /\ ~removed
        /\ TreeIntact

C4_Witness ==
    /\ pc = "raised"
    /\ error.stage = "train"
    /\ yielded = 1
    /\ tree # {}
    /\ TreeIntact

\* what holds of every state around the gate of line 105
C5_GateState ==
    /\ pc \in {"inject", "validate"} => ~ThisCallLoggedIn /\ train_doc = {} /\ log = <<>>
    /\ pc \in {"login", "train_start", "training"} =>
         {"WANDB_API_KEY", "HF_TOKEN"} \subseteq DOMAIN environ
    /\ ThisCallLoggedIn \/ train_doc # {} => error.stage # "validate"
    /\ error.stage = "validate" =>
         /\ pc = "raised"
         /\ error.type = "ValueError"
         /\ ~({"WANDB_API_KEY", "HF_TOKEN"} \subseteq DOMAIN environ)
         /\ Len(log) = 1
         /\ log[1].level = "error"
         /\ log[1].job_id = request.id
         /\ log[1].data \in
              { <<k>> : k \in {"WANDB_API_KEY", "HF_TOKEN"} \ DOMAIN environ }
         /\ ~ThisCallLoggedIn
         /\ train_doc = {}
         /\ yielded = 0
         /\ result = {}

\* what holds of every step into and out of the gate
C5_GateStep ==
    /\ (pc' = "validate" /\ pc # "validate") =>
         /\ pc = "inject"
         /\ {"WANDB_API_KEY", "HF_TOKEN"} \subseteq DOMAIN environ'
         /\ environ'["WANDB_API_KEY"] = request.credentials["wandb_api_key"]
         /\ environ'["HF_TOKEN"] = request.credentials["hf_token"]
    /\ (pc' = "login" /\ pc # "login") =>
         /\ pc = "validate"
         /\ {"WANDB_API_KEY", "HF_TOKEN"} \subseteq DOMAIN environ
    /\ (pc = "validate" /\ pc' # "validate") =>
         IF {"WANDB_API_KEY", "HF_TOKEN"} \subseteq DOMAIN environ
         THEN pc' = "login" /\ error' = NoError
         ELSE pc' = "raised" /\ error' = Err("ValueError", "validate")
    /\ hf_logins' # hf_logins => pc = "login"

\* C5: the validation gate stands between injection and authentication: with
\* WANDB_API_KEY or HF_TOKEN absent at the gate, handler fails with the
\* configuration error logged with the job id, and neither login nor the
\* training delegate is invoked.
C5_ValidationGate == []C5_GateState /\ [][C5_GateStep]_vars

C5_Witness ==
    /\ pc = "raised"
    /\ error = Err("ValueError", "validate")
    /\ "WANDB_API_KEY" \in DOMAIN environ
    /\ "HF_TOKEN" \notin DOMAIN environ
    /\ hf_logins = {}

\* the steps of handler after line 111
PostTrainingStep ==
    \/ ClearEnv \/ PubConfig \/ PubPath \/ Creds \/ Walk \/ UploadFile
    \/ UploadFails \/ UploadDone \/ Cleanup \/ CleanupFails
    \/ ReturnUploaded \/ ExceptUpload

\* C6: once the progress stream has completed, handler does not raise: every
\* later step leads to a returned response, and an error that leaves handler
\* comes from environment preparation or training.
C6_NoRaiseAfterTraining ==
    /\ TrainingCompleted => pc # "raised"
    /\ TrainingCompleted /\ pc = "returned" => result # {}
    /\ TrainingCompleted /\ pc # "returned" => ENABLED PostTrainingStep
    /\ pc = "raised" => error.stage \in {"inject", "validate", "login", "train"}

C6_Witness ==
    /\ TrainingCompleted
    /\ pc = "returned"
    /\ error = Err("UploadError", "upload")
    /\ result # {}

\* C7: when every upload succeeded and the recursive delete fails, handler
\* returns the full-success response all the same.
C7_CleanupFailureKeepsSuccess ==
    (pc = "returned" /\ error.stage = "cleanup") =>
        result = {[status |-> "COMPLETED",
                   model_gcs_path |-> GS_SCHEME \o bucket_name \o SLASH \o gcs_path,
                   message |-> "Training complete, model uploaded to GCS and local cleaned"]}

\* C8: every returned mapping has status "COMPLETED" and a message, and has
\* the key model_gcs_path exactly when all uploads succeeded.
C8_ResponseShape ==
    pc = "returned" =>
        /\ Cardinality(result) = 1
        /\ \A r \in result :
             /\ "status" \in DOMAIN r /\ r.status = "COMPLETED"
             /\ "message" \in DOMAIN r
             /\ "model_gcs_path" \in DOMAIN r <=> error.stage \notin PublicationStages

\* C9: after the progress stream has ended, both secrets are gone from the
\* process environment before publication starts, and so whenever a response
\* is returned.
C9_SecretsCleared ==
    /\ pc \in {"pub_config", "pub_path", "creds", "walk", "upload", "cleanup",
               "return_ok", "except", "returned"} =>
         /\ "WANDB_API_KEY" \notin DOMAIN environ
         /\ "HF_TOKEN" \notin DOMAIN environ
    /\ pc \in {"train_start", "training", "clear"} =>
         {"WANDB_API_KEY", "HF_TOKEN"} \subseteq DOMAIN environ

C9_Witness ==
    /\ pc = "returned"
    /\ result # {}
    /\ ThisCallLoggedIn
    /\ "WANDB_API_KEY" \notin DOMAIN environ
    /\ "HF_TOKEN" \notin DOMAIN environ

\* the hub_model_id the job's args supplied when handler was called
Supplied == Get(args_in, "hub_model_id", NoneV)

\* C10: for a job whose args supply a hub_model_id, the configuration
\* document has the field null and not the supplied value, while handler's
\* own variable keeps the supplied value and the remote path is derived
\* from it.
C10_HubModelIdSuppressed ==
    (pc # "idle" /\ Supplied # NoneV) =>
        /\ \A doc \in config_file \cup train_doc :
             /\ "hub_model_id" \in DOMAIN doc
             /\ doc["hub_model_id"] = YAML_NULL
             /\ doc["hub_model_id"] # YamlScalar(Supplied)
             /\ YamlLoadScalar(doc["hub_model_id"]) = NoneV
        /\ config_file # {}
        /\ pc \in {"inject", "validate", "login", "train_start", "training",
                   "clear", "pub_config", "pub_path"} => hub_model_id = Supplied
        /\ (pc \in {"creds", "walk", "upload", "cleanup", "return_ok"}
               /\ Truthy(Supplied)) =>
             gcs_path = gcs_finetuned_model_path \o SLASH \o request.user_id
                           \o SLASH \o Last(Split(Supplied.s))

C10_Witness ==
    /\ pc = "creds"
    /\ Supplied = StrV(<<"o","/","m","-","v","3">>)
    /\ gcs_path = <<"p","/","u","1","/","v","3">>
    /\ \E doc \in train_doc : doc["hub_model_id"] = YAML_NULL

\* C11: every run of handler on the same job request derives the same remote
\* path, also a run that is given the mapping an earlier run processed.
C11_SameRemotePath == Cardinality(paths) <= 1

\* ----------------------------------------- the job's strings, widely drawn
\* every non-empty hub_model_id over the letters a, c and the hyphen
HubAlphabet == {"a", "c", "-"}
WideHubIds == UNION { [1..n -> HubAlphabet] : n \in 1..MaxHubLen }

\* user ids: "u1", the absolute "/x", and ""
ABS_USER_ID == <<"/","x">>
WideUserIds == { USER_ID, ABS_USER_ID, <<>> }

\* jobs that vary the hub_model_id, and jobs that vary the user id
WideRequests ==
    [ id : {JOB_ID}, run_id : {RUN_ID}, user_id : {USER_ID},
      args : { Put(BaseArgs, "hub_model_id", StrV(h)) : h \in WideHubIds },
      credentials : {FullCredentials}, opt : {<<>>} ]
    \cup
    [ id : {JOB_ID}, run_id : {RUN_ID}, user_id : WideUserIds,
      args : { Put(BaseArgs, "hub_model_id", StrV(<<"c">>)) },
      credentials : {FullCredentials}, opt : {<<>>} ]

\* handler on every such job, in a fully configured worker whose training
\* leaves one file
InitInputs ==
    /\ request \in WideRequests
    /\ tree = {F_FINAL}
    /\ environ = FullConfig
    /\ files = {}
    /\ dirs = {BASE_VOLUME}
    /\ blobs = {}
    /\ config_file = {}
    /\ args_heap = [j \in 1..MaxJobs |-> request.args]
    /\ hf_logins = {}
    /\ started = 0
    /\ pc = "idle"
    /\ job = 0
    /\ args_in = <<>>
    /\ output_dir = <<>>
    /\ hub_model_id = NoneV
    /\ yielded = 0
    /\ train_doc = {}
    /\ bucket_name = <<>>
    /\ gcs_finetuned_model_path = <<>>
    /\ gcs_path = <<>>
    /\ todo = <<>>
    /\ uploaded = <<>>
    /\ error = NoError
    /\ removed = FALSE
    /\ result = {}
    /\ log = <<>>
    /\ paths = {}
    /\ other = "none"

SpecInputs == InitInputs /\ [][Next]_vars

\* C12: for a non-empty hub_model_id, the model identifier of the remote path
\* is its last hyphen-delimited token: it holds no hyphen, the value is
\* either it or ends in "-" followed by it, and a value without a hyphen is
\* kept unchanged.
C12_LastHyphenToken ==
    (pc \in {"creds", "walk", "upload", "cleanup", "return_ok"}
        /\ Supplied.t = "str" /\ Supplied.s # <<>>) =>
        LET h == Supplied.s
            t == hub_model_id.s
        IN  /\ hub_model_id.t = "str"
            /\ \A k \in 1..Len(t) : t[k] # "-"
            /\ \/ h = t
               \/ /\ Len(h) > Len(t)
                  /\ SubSeq(h, Len(h) - Len(t), Len(h)) = <<"-">> \o t
            /\ (\A k \in 1..Len(h) : h[k] # "-") => t = h
            /\ gcs_path = gcs_finetuned_model_path \o SLASH \o request.user_id
                             \o SLASH \o t

C12_Witness ==
    /\ pc = "creds"
    /\ Supplied = StrV(<<"a","-","a","-","c">>)
    /\ hub_model_id = StrV(<<"c">>)
    /\ gcs_path = <<"p","/","u","1","/","c">>

\* C14: the Output Location handler computes and writes into
\* args["output_dir"] is <base_volume>/fine-tuning/<run_id>/<user_id>.
C14_OutputDirExact ==
    pc # "idle" =>
        /\ output_dir = BASE_VOLUME \o SLASH \o FINE_TUNING \o request.run_id
                           \o SLASH \o request.user_id
        /\ args_heap[job]["output_dir"] = StrV(output_dir)

\* C13: every uploaded file is stored in the bucket under
\* <prefix>/<user_id>/<model identifier>/<its path relative to the local
\* root>, and distinct local files get distinct remote objects.
C13_RemoteObjectNames ==
    pc \in {"upload", "cleanup"} =>
        /\ StartsWith(gcs_path, gcs_finetuned_model_path \o SLASH
                                   \o request.user_id \o SLASH)
        /\ \A k \in 1..Len(uploaded) :
             /\ \E rel \in tree :
                  /\ PathJoin(output_dir, rel) \in files
                  /\ uploaded[k] = gcs_path \o SLASH \o rel
             /\ [bucket |-> bucket_name, name |-> uploaded[k]] \in blobs
        /\ \A a, b \in 1..Len(uploaded) : a # b => uploaded[a] # uploaded[b]
        /\ Len(uploaded) + Len(todo) <= Cardinality(tree)

C13_Witness ==
    /\ pc = "cleanup"
    /\ tree = {F_CKPT, F_SUB}
    /\ Len(uploaded) = 2
    /\ \E k \in 1..2 : uploaded[k] = gcs_path \o SLASH \o F_SUB

\* the log of a call whose delegate has yielded its events 1..n
TrainLog(n) ==
    <<LogEntry("info", "Starting Training.", <<>>, <<>>)>>
    \o [k \in 1..n |-> LogEntry("info", "event", <<k>>, <<>>)]

C15_LogState ==
    /\ pc = "training" => log = TrainLog(yielded)
    /\ TrainingCompleted =>
         SubSeq(log, 1, yielded + 2) =
             TrainLog(yielded)
             \o <<LogEntry("info", "Training Complete.", <<>>, <<>>)>>
    /\ (pc = "raised" /\ error.stage = "train") => log = TrainLog(yielded)

C15_LoopStep ==
    (pc = "training" /\ pc' = "training") =>
        /\ yielded' = yielded + 1
        /\ log' = Append(log, LogEntry("info", "event", <<yielded'>>, <<>>))
        /\ UNCHANGED <<inputs, environ, blobs, config_file, args_heap,
                       hf_logins, started, job, args_in, output_dir,
                       hub_model_id, bucket_name, gcs_finetuned_model_path,
                       gcs_path, todo, uploaded, error, removed, result>>

\* C15: the events the training delegate yields are logged each once,
\* unchanged and in the order yielded, between "Starting Training." and
\* "Training Complete.", and handler does nothing else between two events.
C15_EventsRelayedInOrder == []C15_LogState /\ [][C15_LoopStep]_vars

C15_Witness ==
    /\ pc = "clear"
    /\ yielded = 2
    /\ log = TrainLog(2) \o <<LogEntry("info", "Training Complete.", <<>>, <<>>)>>

\* the position of a step in the text of handler (lines 76-143); the two
\* ways out of the try block share a position, and so do the two ways out
\* of handler
StepRank(p) ==
    CASE p = "idle" -> 0
      [] p = "inject" -> 1
      [] p = "validate" -> 2
      [] p = "login" -> 3
      [] p = "train_start" -> 4
      [] p = "training" -> 5
      [] p = "clear" -> 6
      [] p = "pub_config" -> 7
      [] p = "pub_path" -> 8
      [] p = "creds" -> 9
      [] p = "walk" -> 10
      [] p = "upload" -> 11
      [] p = "cleanup" -> 12
      [] p \in {"return_ok", "except"} -> 13
      [] p \in {"returned", "raised"} -> 14

C16_OrderState ==
    /\ pc # "idle" => config_file = {YamlDump(args_heap[job])}
    /\ uploaded # <<>> =>
         /\ TrainingCompleted
         /\ "WANDB_API_KEY" \notin DOMAIN environ
         /\ "HF_TOKEN" \notin DOMAIN environ
    /\ removed => (todo = <<>> /\ pc \in {"return_ok", "except", "returned"})
    /\ result # {} => pc = "returned"

C16_OrderStep ==
    /\ started' = started =>
         \/ pc' = pc /\ pc = "training" /\ yielded' = yielded + 1
         \/ pc' = pc /\ pc = "upload" /\ todo' = Tail(todo)
         \/ StepRank(pc') = StepRank(pc) + 1
         \/ pc' = "except" /\ StepRank(pc) \in 7..12
         \/ pc' = "raised" /\ StepRank(pc) \in 1..6
    /\ started' # started =>
         (StepRank(pc) \in {0, 14} /\ pc' = "inject" /\ started' = started + 1)
    /\ blobs' # blobs => (pc = "upload" /\ TrainingCompleted /\ ~removed)
    /\ (files' # files /\ files' \subseteq files) =>
         (pc = "cleanup" /\ todo = <<>>)

\* C16: one invocation goes through its steps in the order of the text:
\* document written, secrets injected, validation, login, training, secrets
\* cleared, uploads, cleanup, response; nothing is uploaded before the
\* stream has ended, and nothing is deleted before the uploads are over.
C16_FixedStepOrder == []C16_OrderState /\ [][C16_OrderStep]_vars

C16_Witness ==
    /\ pc = "returned"
    /\ removed
    /\ Len(uploaded) = 2
    /\ yielded = 1
    /\ result = {FullResponse(bucket_name, gcs_path)}

\* C17: with a second call interleaved at the await points, the secrets a
\* call injected stay in os.environ until its training stream has ended,
\* and a call whose training completed does not raise.
C17_SecretsSurviveInterleaving ==
    /\ pc \in {"validate", "login", "train_start", "training"} =>
         /\ "WANDB_API_KEY" \in DOMAIN environ
         /\ "HF_TOKEN" \in DOMAIN environ
         /\ environ["WANDB_API_KEY"] = request.credentials["wandb_api_key"]
         /\ environ["HF_TOKEN"] = request.credentials["hf_token"]
    /\ TrainingCompleted => pc # "raised"

\* the two secrets are in os.environ with the values this job supplied
OwnSecretsPresent ==
    /\ {"WANDB_API_KEY", "HF_TOKEN"} \subseteq DOMAIN environ
    /\ {"wandb_api_key", "hf_token"} \subseteq DOMAIN request.credentials
    /\ environ["WANDB_API_KEY"] = request.credentials["wandb_api_key"]
    /\ environ["HF_TOKEN"] = request.credentials["hf_token"]

C18_AbortState ==
    (pc = "raised" /\ error.stage \in {"login", "train"}) => OwnSecretsPresent

C18_DeleteStep ==
    (\E k \in {"WANDB_API_KEY", "HF_TOKEN"} :
         k \in DOMAIN environ /\ k \notin DOMAIN environ')
        => (pc = "clear" /\ TrainingCompleted)

\* C18: the secrets are deleted only after a training stream that ended
\* without error; when login or the stream raises, both secrets this call
\* injected are still in os.environ once the error has left handler.
C18_SecretsLeftOnAbort == []C18_AbortState /\ [][C18_DeleteStep]_vars

C18_Witness ==
    /\ pc = "raised"
    /\ error = Err("TrainError", "train")
    /\ OwnSecretsPresent
    /\ environ["HF_TOKEN"] = HF_TOKEN_VALUE
    /\ ThisCallLoggedIn

\* the three ways a call that got to training can end
TrainingFailed == pc = "raised" /\ error.stage = "train" /\ result = {}
PublishSucceeded ==
    pc = "returned" /\ result = {FullResponse(bucket_name, gcs_path)}
PublishFailed == pc = "returned" /\ result = {DegradedResponse}

C19_TerminalState ==
    /\ (pc = "raised" /\ ThisCallLoggedIn /\ error.stage # "login")
           => TrainingFailed
    /\ pc = "returned" =>
         /\ PublishSucceeded \/ PublishFailed
         /\ ~(PublishSucceeded /\ PublishFailed)

C19_TerminalStep ==
    pc \in {"returned", "raised"} => (started' = started + 1 /\ pc' = "inject")

\* C19: a call that has prepared its environment ends, after finitely many
\* steps, in exactly one of: training failed (the error propagates),
\* publication succeeded (full response), publication failed (degraded
\* response); after that the call takes no step.
C19_ReachesOneTerminalState ==
    /\ []C19_TerminalState
    /\ [][C19_TerminalStep]_vars
    /\ (pc = "train_start") ~> (TrainingFailed \/ PublishSucceeded \/ PublishFailed)

C19_Witness ==
    /\ PublishFailed
    /\ error.stage = "credentials"
    /\ yielded = MaxEvents
    /\ started = 1

C20_FailedState ==
    error.stage = "upload" =>
        /\ pc \in {"except", "returned"}
        /\ todo # <<>>
        /\ \A k \in 1..Len(uploaded) :
             [bucket |-> bucket_name, name |-> uploaded[k]] \in blobs
        /\ \A i \in 1..Len(todo) :
             BlobName(gcs_path, Relpath(todo[i], output_dir)) \notin UploadedSet
        /\ TreeIntact
        /\ ~removed
        /\ pc = "returned" => result = {DegradedResponse}

C20_FailedStep ==
    (error.stage = "upload" /\ started' = started) =>
        /\ UNCHANGED <<blobs, uploaded, todo, files, dirs, error>>
        /\ pc' = "returned"

\* C20: when the upload of a file raises after k files were uploaded, the k
\* objects stay in the bucket, the failed file and the files after it are
\* not uploaded, nothing is retried, the response is the degraded one and
\* the whole local tree is still there.
C20_PartialPublication == []C20_FailedState /\ [][C20_FailedStep]_vars

C20_Witness ==
    /\ pc = "returned"
    /\ error.stage = "upload"
    /\ Len(uploaded) = 1
    /\ Len(todo) = 1
    /\ [bucket |-> bucket_name, name |-> uploaded[1]] \in blobs
    /\ TreeIntact
    /\ result = {DegradedResponse}

====
